---------------------------- MODULE Spec2Model ----------------------------
(***************************************************************************)
(* Model of valida/app.py: the five text extractors, the approval rule of *)
(* display_results and the Streamlit session state machine driven by       *)
(* main, display_uploader and display_results.                             *)
(*                                                                         *)
(* A Python str is a sequence of one-character strings.  A Python value    *)
(* that may be None is <<>> for None and <<v>> for the value v.            *)
(***************************************************************************)
EXTENDS Integers, Sequences, FiniteSets, TLC

VARIABLES
    session_state,  \* st.session_state: a function from the keys set so far
    uploaded_file,  \* value of the file_uploader widget (key "uploader")
    button,         \* TRUE when "Analisar Novo Documento" was clicked for the next run
    pending,        \* TRUE when a script run is requested (user event or st.rerun)
    script,         \* position of the script: "idle", or "running" inside main()
    page,           \* what the last finished script run left on the page
    fn_text,        \* argument of a single extractor call
    fn_pc,          \* position of that call: "idle", "call" or "return"
    fn_out          \* its return value

vars == <<session_state, uploaded_file, button, pending, script, page,
          fn_text, fn_pc, fn_out>>

app_vars == <<session_state, uploaded_file, button, pending, script, page>>
fn_vars == <<fn_text, fn_pc, fn_out>>

None == <<>>
Some(v) == <<v>>

(***************************************************************************)
(* Characters.  A character of code point up to 255 is the one-character   *)
(* string; a character that cannot be written in a string, which are those *)
(* above 255 and the grave accent (96), is the string Chr(n) of its code   *)
(* point n, as Python writes it.  The characters of the model are those up *)
(* to 255 and NamedChars: every character that \d, \s, [a-zA-Z] or a       *)
(* letter of the patterns matches, and every character that lower() and    *)
(* upper() make of these.  "" is no character.                             *)
(***************************************************************************)
Chr(n) == "chr(" \o ToString(n) \o ")"

Range(s) == {s[i] : i \in DOMAIN s}

UpperChars == <<"A","B","C","D","E","F","G","H","I","J","K","L","M","N","O",
                "P","Q","R","S","T","U","V","W","X","Y","Z">>
LowerChars == <<"a","b","c","d","e","f","g","h","i","j","k","l","m","n","o",
                "p","q","r","s","t","u","v","w","x","y","z">>
UpperAccented == <<"À","Á","Â","Ã","Ä","Å","Æ","Ç","È","É","Ê","Ë","Ì","Í","Î",
                   "Ï","Ð","Ñ","Ò","Ó","Ô","Õ","Ö","Ø","Ù","Ú","Û","Ü","Ý","Þ">>
LowerAccented == <<"à","á","â","ã","ä","å","æ","ç","è","é","ê","ë","ì","í","î",
                   "ï","ð","ñ","ò","ó","ô","õ","ö","ø","ù","ú","û","ü","ý","þ">>
AllUpper == UpperChars \o UpperAccented
AllLower == LowerChars \o LowerAccented

\* \d : the decimal digits; above 255 they come in runs of ten from these code points
AsciiDigits == {"0","1","2","3","4","5","6","7","8","9"}
DigitBlocks ==
    { 1632, 1776, 1984, 2406, 2534, 2662, 2790, 2918, 3046, 3174, 3302, 3430, 3558,
      3664, 3792, 3872, 4160, 4240, 6112, 6160, 6470, 6608, 6784, 6800, 6992, 7088,
      7232, 7248, 42528, 43216, 43264, 43472, 43504, 43600, 44016, 65296, 66720,
      68912, 69734, 69872, 69942, 70096, 70384, 70736, 70864, 71248, 71360, 71472,
      71904, 72016, 72784, 73040, 73120, 92768, 92864, 93008, 120782, 120792,
      120802, 120812, 120822, 123200, 123632, 125264, 130032 }
OtherDigits == {Chr(b + k) : b \in DigitBlocks, k \in 0..9}

\* \s : tab, line feed, vertical tab, form feed, carriage return, the four
\* separators 28..31, space, next line (133), no-break space (160), and the
\* spaces above 255
Latin1Spaces == {"\t", "\n", "", "\f", "\r", "", "", "", "", " ", "", " "}
OtherSpaces == {Chr(n) : n \in {5760, 8232, 8233, 8239, 8287, 12288} \cup (8192..8202)}

\* the letters above 255 that the case maps and re.IGNORECASE relate to the
\* characters up to 255, and the combining dot (775) of lower() of 304
CaseChars == {Chr(304), Chr(305), Chr(383), Chr(8490), Chr(376), Chr(924), Chr(956), Chr(775)}

NamedChars == OtherDigits \cup OtherSpaces \cup CaseChars \cup {Chr(96)}
named == [c \in NamedChars |-> c]
\* a character of the model, itself
Char(c) == IF Len(c) <= 1 THEN c ELSE named[c]

\* str.lower() / str.upper() of one character, as a str: the characters that
\* change as tables, any other character unchanged
lower_of ==
    [c \in Range(AllUpper) |-> <<AllLower[CHOOSE i \in DOMAIN AllUpper : AllUpper[i] = c]>>]
        @@ (Chr(304) :> <<"i", Chr(775)>>) @@ (Chr(8490) :> <<"k">>)
        @@ (Chr(376) :> <<"ÿ">>) @@ (Chr(924) :> <<Chr(956)>>)
upper_of ==
    [c \in Range(AllLower) |-> <<AllUpper[CHOOSE i \in DOMAIN AllLower : AllLower[i] = c]>>]
        @@ ("ß" :> <<"S","S">>) @@ ("ÿ" :> <<Chr(376)>>) @@ ("µ" :> <<Chr(924)>>)
        @@ (Chr(305) :> <<"I">>) @@ (Chr(383) :> <<"S">>) @@ (Chr(956) :> <<Chr(924)>>)
LowerChar(c) == IF c \in DOMAIN lower_of THEN lower_of[c] ELSE <<Char(c)>>
UpperChar(c) == IF c \in DOMAIN upper_of THEN upper_of[c] ELSE <<Char(c)>>
RECURSIVE lower(_)
lower(s) == IF s = <<>> THEN <<>> ELSE LowerChar(Head(s)) \o lower(Tail(s))
RECURSIVE upper(_)
upper(s) == IF s = <<>> THEN <<>> ELSE UpperChar(Head(s)) \o upper(Tail(s))

\* re.IGNORECASE: two characters match when they have the same lower case
\* letter, where 304 and 305 go with "i", 383 with "s", and 924 and 956 with "µ"
fold_of ==
    [c \in Range(AllUpper) |-> AllLower[CHOOSE i \in DOMAIN AllUpper : AllUpper[i] = c]]
        @@ (Chr(304) :> "i") @@ (Chr(305) :> "i") @@ (Chr(383) :> "s")
        @@ (Chr(8490) :> "k") @@ (Chr(376) :> "ÿ") @@ (Chr(924) :> "µ")
        @@ (Chr(956) :> "µ")
FoldChar(c) == IF c \in DOMAIN fold_of THEN fold_of[c] ELSE Char(c)

\* regular-expression character classes
IsDigit(c) == IF Len(c) = 1 THEN c \in AsciiDigits ELSE c \in OtherDigits     \* \d
IsSpace(c) == IF Len(c) = 1 THEN c \in Latin1Spaces ELSE c \in OtherSpaces    \* \s
IsAZ(c) == FoldChar(c) \in Range(LowerChars)           \* [a-zA-Z], [A-Z] with IGNORECASE
\* \w : the letters and the numeric characters, and "_"; of the letters and
\* numeric characters above 255 only those of NamedChars are characters of the model
Latin1WordChars ==
    Range(AllUpper) \cup Range(AllLower) \cup AsciiDigits
        \cup {"_", "ª", "²", "³", "µ", "¹", "º", "¼", "½", "¾", "ß", "ÿ"}
named_word == [c \in NamedChars |-> c \notin OtherSpaces \cup {Chr(775), Chr(96)}]
IsWordChar(c) == IF Len(c) <= 1 THEN c \in Latin1WordChars ELSE named_word[c]

\* the character at position p, 1-based; "" past either end
At(t, p) == IF p \in DOMAIN t THEN t[p] ELSE ""

\* the literal lit at position p of t, compared exactly
LitAt(t, p, lit) ==
    /\ p >= 1
    /\ p + Len(lit) - 1 <= Len(t)
    /\ \A k \in DOMAIN lit : t[p + k - 1] = lit[k]
\* the literal lit at position p of t under re.IGNORECASE
LitAtI(t, p, lit) ==
    /\ p >= 1
    /\ p + Len(lit) - 1 <= Len(t)
    /\ \A k \in DOMAIN lit : FoldChar(t[p + k - 1]) = FoldChar(lit[k])
\* Python's  word in text
Contains(t, word) == \E p \in 1..(Len(t) + 1) : LitAt(t, p, word)
\* \b between positions p-1 and p
WordBoundary(t, p) ==
    (p - 1 \in DOMAIN t /\ IsWordChar(t[p - 1])) # (p \in DOMAIN t /\ IsWordChar(t[p]))

\* length of the run of characters of a class that starts at p
RECURSIVE DigitRun(_, _)
DigitRun(t, p) == IF p \in DOMAIN t /\ IsDigit(t[p]) THEN 1 + DigitRun(t, p + 1) ELSE 0
RECURSIVE SpaceRun(_, _)
SpaceRun(t, p) == IF p \in DOMAIN t /\ IsSpace(t[p]) THEN 1 + SpaceRun(t, p + 1) ELSE 0
RECURSIVE WordRun(_, _)
WordRun(t, p) == IF p \in DOMAIN t /\ IsWordChar(t[p]) THEN 1 + WordRun(t, p + 1) ELSE 0
IsSlashSpace(c) == IsSpace(c) \/ c = "/"                              \* [\s/]
RECURSIVE SlashSpaceRun(_, _)
SlashSpaceRun(t, p) ==
    IF p \in DOMAIN t /\ IsSlashSpace(t[p]) THEN 1 + SlashSpaceRun(t, p + 1) ELSE 0

(***************************************************************************)
(* classify_document                                                       *)
(***************************************************************************)
exam_keywords ==
    { <<"e","x","a","m","e">>,
      <<"r","e","s","u","l","t","a","d","o"," ","d","e">>,
      <<"h","e","m","o","g","r","a","m","a">>,
      <<"r","e","s","s","o","n","â","n","c","i","a"," ","m","a","g","n","é","t","i","c","a">>,
      <<"r","a","i","o","-","x">>,
      <<"t","o","m","o","g","r","a","f","i","a">> }
report_keywords ==
    { <<"l","a","u","d","o">>,
      <<"a","t","e","s","t","a","d","o">>,
      <<"r","e","l","a","t","ó","r","i","o"," ","m","é","d","i","c","o">>,
      <<"d","e","c","l","a","r","a","ç","ã","o">> }

classify_document_report_first(text) ==
    LET lower_text == lower(text) IN
    IF \E word \in report_keywords : Contains(lower_text, word)
    THEN "Laudo"
    ELSE IF \E word \in exam_keywords : Contains(lower_text, word)
         THEN "Exame"
         ELSE "Desconhecido"

classify_document(text) ==
    LET lower_text == lower(text) IN
    IF \E word \in exam_keywords : Contains(lower_text, word)
    THEN IF \E word \in report_keywords : Contains(lower_text, word)
         THEN "Laudo com Exame"
         ELSE "Exame"
    ELSE IF \E word \in report_keywords : Contains(lower_text, word)
         THEN "Laudo"
         ELSE "Desconhecido"

(***************************************************************************)
(* extract_cid:                                                            *)
(*   cid[-\s]?10?\s*[:\-\s]?\s*([a-zA-Z]\d{1,2}(\.\d{1,2})?)  IGNORECASE   *)
(* Each Cid<k> is the rest of the pattern from one element on, tried at    *)
(* position p; it is the position where group 1 starts, or 0 when the rest *)
(* does not match.  An optional or starred element is greedy: the longest  *)
(* choice is tried first and a shorter one only when the rest fails.       *)
(***************************************************************************)
\* ([a-zA-Z]\d{1,2}(\.\d{1,2})?) : the position after the group when it starts at p
CidGroupEnd(t, p) ==
    LET d == p + 1 + (IF IsDigit(At(t, p + 2)) THEN 2 ELSE 1) IN
    IF At(t, d) = "." /\ IsDigit(At(t, d + 1))
    THEN d + 1 + (IF IsDigit(At(t, d + 2)) THEN 2 ELSE 1)
    ELSE d
CidGroup(t, p) == IF IsAZ(At(t, p)) /\ IsDigit(At(t, p + 1)) THEN p ELSE 0
\* \s* then the group: k spaces, then fewer
RECURSIVE CidSpaces2Try(_, _, _)
CidSpaces2Try(t, p, k) ==
    IF k < 0 THEN 0
    ELSE IF CidGroup(t, p + k) # 0 THEN CidGroup(t, p + k)
    ELSE CidSpaces2Try(t, p, k - 1)
CidSpaces2(t, p) == CidSpaces2Try(t, p, SpaceRun(t, p))
\* [:\-\s]? then the rest
CidSep(t, p) ==
    IF (At(t, p) \in {":", "-"} \/ IsSpace(At(t, p))) /\ CidSpaces2(t, p + 1) # 0
    THEN CidSpaces2(t, p + 1)
    ELSE CidSpaces2(t, p)
\* \s* then the rest: k spaces, then fewer
RECURSIVE CidSpaces1Try(_, _, _)
CidSpaces1Try(t, p, k) ==
    IF k < 0 THEN 0
    ELSE IF CidSep(t, p + k) # 0 THEN CidSep(t, p + k)
    ELSE CidSpaces1Try(t, p, k - 1)
CidSpaces1(t, p) == CidSpaces1Try(t, p, SpaceRun(t, p))
\* 0? then the rest
CidZero(t, p) ==
    IF At(t, p) = "0" /\ CidSpaces1(t, p + 1) # 0
    THEN CidSpaces1(t, p + 1)
    ELSE CidSpaces1(t, p)
\* 1 then the rest
CidOne(t, p) == IF At(t, p) = "1" THEN CidZero(t, p + 1) ELSE 0
\* [-\s]? then the rest
CidDash(t, p) ==
    IF (At(t, p) = "-" \/ IsSpace(At(t, p))) /\ CidOne(t, p + 1) # 0
    THEN CidOne(t, p + 1)
    ELSE CidOne(t, p)
\* the whole pattern tried at position i
CidMatchAt(t, i) == IF LitAtI(t, i, <<"c","i","d">>) THEN CidDash(t, i + 3) ELSE 0

\* re.search: the pattern tried at i, then at the positions after i; the start
\* of group 1 of the first match, or 0
RECURSIVE CidSearch(_, _)
CidSearch(t, i) ==
    IF i > Len(t) THEN 0
    ELSE IF CidMatchAt(t, i) # 0 THEN CidMatchAt(t, i)
    ELSE CidSearch(t, i + 1)

extract_cid(text) ==
    IF CidSearch(text, 1) # 0
    THEN Some(upper(SubSeq(text, CidSearch(text, 1),
                           CidGroupEnd(text, CidSearch(text, 1)) - 1)))
    ELSE None

(***************************************************************************)
(* extract_registry:                                                       *)
(*   \b(CRM|CRP|CREFITO|CRO|COREN)\b[\s/]*([A-Z]{2})?[\s/]*(\d+) IGNORECASE*)
(* Each Reg<k> is the rest of the pattern from one element on, tried at    *)
(* position p; it is <<>> when the rest does not match and otherwise       *)
(* <<[state |-> group 2 or None, number |-> group 3]>>.                    *)
(***************************************************************************)
registry_types ==
    << <<"C","R","M">>, <<"C","R","P">>, <<"C","R","E","F","I","T","O">>,
       <<"C","R","O">>, <<"C","O","R","E","N">> >>

\* (\d+)
RegNumber(t, p, state) ==
    IF IsDigit(At(t, p))
    THEN Some([state |-> state, number |-> SubSeq(t, p, p + DigitRun(t, p) - 1)])
    ELSE None
\* [\s/]* then the number: k separators, then fewer
RECURSIVE RegSeps2Try(_, _, _, _)
RegSeps2Try(t, p, k, state) ==
    IF k < 0 THEN None
    ELSE IF RegNumber(t, p + k, state) # None THEN RegNumber(t, p + k, state)
    ELSE RegSeps2Try(t, p, k - 1, state)
RegSeps2(t, p, state) == RegSeps2Try(t, p, SlashSpaceRun(t, p), state)
\* a variant in which the state group is not optional
RegState_required(t, p) ==
    IF IsAZ(At(t, p)) /\ IsAZ(At(t, p + 1))
    THEN RegSeps2(t, p + 2, Some(SubSeq(t, p, p + 1)))
    ELSE None
\* ([A-Z]{2})? then the rest
RegState(t, p) ==
    IF IsAZ(At(t, p)) /\ IsAZ(At(t, p + 1))
       /\ RegSeps2(t, p + 2, Some(SubSeq(t, p, p + 1))) # None
    THEN RegSeps2(t, p + 2, Some(SubSeq(t, p, p + 1)))
    ELSE RegSeps2(t, p, None)
\* [\s/]* then the rest: k separators, then fewer
RECURSIVE RegSeps1Try(_, _, _)
RegSeps1Try(t, p, k) ==
    IF k < 0 THEN None
    ELSE IF RegState(t, p + k) # None THEN RegState(t, p + k)
    ELSE RegSeps1Try(t, p, k - 1)
RegSeps1(t, p) == RegSeps1Try(t, p, SlashSpaceRun(t, p))
\* alternative a of (CRM|CRP|CREFITO|CRO|COREN), then \b and the rest
RegAlt(t, i, a) ==
    LET ty == registry_types[a] IN
    IF LitAtI(t, i, ty) /\ WordBoundary(t, i + Len(ty))
    THEN RegSeps1(t, i + Len(ty))
    ELSE None
\* the alternatives from a on, in their order:
\* <<>> or <<[type, state, number]>> of the first that matches with the rest
RECURSIVE RegAlts(_, _, _)
RegAlts(t, i, a) ==
    IF a > Len(registry_types) THEN None
    ELSE IF RegAlt(t, i, a) # None
    THEN Some([type |-> SubSeq(t, i, i + Len(registry_types[a]) - 1),
               state |-> RegAlt(t, i, a)[1].state,
               number |-> RegAlt(t, i, a)[1].number])
    ELSE RegAlts(t, i, a + 1)
\* the whole pattern tried at position i
RegMatchAt(t, i) == IF WordBoundary(t, i) THEN RegAlts(t, i, 1) ELSE None

\* a variant that leaves the text as matched
registry_str_no_upper(m) ==
    m.type \o <<"/">> \o (IF m.state # None THEN m.state[1] ELSE <<>>)
        \o <<" ">> \o m.number

\* f"{registry_type.upper()}/{state.upper() if state else ''} {number}"
registry_str(m) ==
    upper(m.type) \o <<"/">>
        \o (IF m.state # None THEN upper(m.state[1]) ELSE <<>>)
        \o <<" ">> \o m.number

\* pattern.search: the pattern tried at i, then at the positions after i
RECURSIVE RegSearch(_, _)
RegSearch(t, i) ==
    IF i > Len(t) THEN None
    ELSE IF RegMatchAt(t, i) # None THEN RegMatchAt(t, i)
    ELSE RegSearch(t, i + 1)

\* returns the pair (registry_str, status) or (None, None)
extract_registry(text) ==
    IF RegSearch(text, 1) # None
    THEN <<Some(registry_str(RegSearch(text, 1)[1])), Some("Ativo")>>
    ELSE <<None, None>>

(***************************************************************************)
(* check_afastamento:  \b keyword \b  for any keyword, IGNORECASE          *)
(***************************************************************************)
afastamento_keywords ==
    { <<"a","f","a","s","t","a","m","e","n","t","o">>,
      <<"r","e","p","o","u","s","o">>,
      <<"s","u","s","p","e","n","s","ã","o"," ","d","e"," ","s","u","a","s"," ",
        "a","t","i","v","i","d","a","d","e","s">>,
      <<"i","m","p","o","s","s","i","b","i","l","i","t","a","d","o"," ","d","e"," ",
        "c","o","m","p","a","r","e","c","e","r">>,
      <<"a","f","a","s","t","a","r","-","s","e">> }

check_afastamento(text) ==
    \E keyword \in afastamento_keywords :
        \E i \in 1..(Len(text) + 1) :
            /\ WordBoundary(text, i)
            /\ LitAtI(text, i, keyword)
            /\ WordBoundary(text, i + Len(keyword))

(***************************************************************************)
(* check_signature:  ass\w*:  IGNORECASE                                   *)
(***************************************************************************)
\* \w* then ":" , tried at position p
SigWord(t, p) == \E k \in 0..WordRun(t, p) : At(t, p + k) = ":"
SigMatchAt(t, i) == LitAtI(t, i, <<"a","s","s">>) /\ SigWord(t, i + 3)

check_signature(text) == \E i \in 1..Len(text) : SigMatchAt(text, i)

(***************************************************************************)
(* display_results: the approval rule and the checklist marks              *)
(***************************************************************************)
\* Python truth value of a value that is None or a str
truthy(v) == v # None /\ v[1] # <<>>

is_valid_type(res) == res.doc_type \in {"Laudo", "Laudo com Exame"}
\* registry, registry_status = res['registry_info']; registry_status == "Ativo"
is_active_registry(registry_info) == registry_info[2] = Some("Ativo")

\* a variant that leaves the signature out of the rule
is_approved_no_signature(res) ==
    /\ is_valid_type(res)
    /\ truthy(res.cid)
    /\ is_active_registry(res.registry_info)
    /\ res.afastamento

is_approved(res) ==
    /\ is_valid_type(res)
    /\ truthy(res.cid)
    /\ is_active_registry(res.registry_info)
    /\ res.afastamento
    /\ res.signature

\* the five marks of the checklist, TRUE for the check mark
checklist(res) ==
    << is_valid_type(res),
       truthy(res.cid),
       is_active_registry(res.registry_info),
       res.afastamento,
       res.signature >>

(***************************************************************************)
(* Uploaded files.  A file is unreadable (Image.open raises), readable but *)
(* failing in OCR (image_to_string raises), or an image with a text.  The  *)
(* texts are the segments of a document, each present or left out.         *)
(***************************************************************************)
NumSegments == 6

Segments ==
    << <<"L","A","U","D","O"," ">>,
       <<"C","I","D","-","1","0",":"," ","J","4","5",".","0"," ">>,
       <<"C","R","M","/","R","J"," ","9","8","7","6","5"," ">>,
       <<"a","f","a","s","t","a","m","e","n","t","o"," ">>,
       <<"A","s","s","i","n","a","t","u","r","a",":"," ","D","r">>,
       <<" ","e","x","a","m","e">>,
       <<" ","c","r","m"," ","1">>,
       <<" ","a","t","e","s","t","a","d","o">> >>

RECURSIVE DocTextFrom(_, _)
DocTextFrom(S, i) ==
    IF i > NumSegments THEN <<>>
    ELSE (IF i \in S THEN Segments[i] ELSE <<>>) \o DocTextFrom(S, i + 1)
DocText(S) == DocTextFrom(S, 1)
DocTexts == {DocText(S) : S \in SUBSET (1..NumSegments)}

Files ==
    {[kind |-> "unreadable", text |-> <<>>], [kind |-> "ocr_error", text |-> <<>>]}
        \cup {[kind |-> "image", text |-> t] : t \in DocTexts}

\* the dictionary built from the OCR text
Analyze(text) ==
    [doc_type |-> classify_document(text),
     cid |-> extract_cid(text),
     registry_info |-> extract_registry(text),
     afastamento |-> check_afastamento(text),
     signature |-> check_signature(text),
     raw_text |-> text]

\* the dictionary of every document text, computed once
Analysis == [t \in DocTexts |-> Analyze(t)]

\* the body of the try block: the exception raised, or None
Raised(file) ==
    IF file.kind = "unreadable" THEN Some("cannot identify image file")
    ELSE IF file.kind = "ocr_error" THEN Some("tesseract failed")
    ELSE None

(***************************************************************************)
(* Session state                                                           *)
(***************************************************************************)
Initialised == "analysis_complete" \in DOMAIN session_state
AnalysisComplete == Initialised /\ session_state.analysis_complete
Results == IF Initialised THEN session_state.results ELSE None
ErrorMessage == IF Initialised THEN session_state.error_message ELSE None

initial_state == [analysis_complete |-> FALSE, results |-> None, error_message |-> None]

\* a variant that marks the analysis complete without a result
store_results_flag_only(ss, results) ==
    [ss EXCEPT !.analysis_complete = TRUE, !.error_message = None]

store_results(ss, results) ==
    [ss EXCEPT !.results = Some(results),
               !.analysis_complete = TRUE,
               !.error_message = None]

\* a variant that also drops what was stored
store_error_clearing(ss, e) ==
    [ss EXCEPT !.results = Some([raw_text |-> <<>>]),
               !.error_message = Some("Ocorreu um erro ao processar o arquivo: " \o e)]

store_error(ss, e) ==
    [ss EXCEPT !.error_message = Some("Ocorreu um erro ao processar o arquivo: " \o e)]

\* a variant that keeps the stored result
reset_state_keep_results(ss) ==
    [ss EXCEPT !.analysis_complete = FALSE, !.error_message = None]

reset_state(ss) ==
    [ss EXCEPT !.analysis_complete = FALSE, !.results = None, !.error_message = None]

(***************************************************************************)
(* User events.  They arrive while no script run is in progress and        *)
(* request a run.                                                          *)
(***************************************************************************)
UploaderShown == page \in {"uploader", "uploader+error", "uploader+spinner"}

UserUpload ==
    /\ script = "idle"
    /\ UploaderShown
    /\ \E f \in Files : uploaded_file' = Some(f)
    /\ pending' = TRUE
    /\ UNCHANGED <<session_state, button, script, page, fn_vars>>

UserRemoveFile ==
    /\ script = "idle"
    /\ UploaderShown
    /\ uploaded_file # None
    /\ uploaded_file' = None
    /\ pending' = TRUE
    /\ UNCHANGED <<session_state, button, script, page, fn_vars>>

UserClickButton ==
    /\ script = "idle"
    /\ page = "results"
    /\ button' = TRUE
    /\ pending' = TRUE
    /\ UNCHANGED <<session_state, uploaded_file, script, page, fn_vars>>

\* any other interaction that reruns the script (expander, text area)
UserInteract ==
    /\ script = "idle"
    /\ page = "results"
    /\ ~pending
    /\ pending' = TRUE
    /\ UNCHANGED <<session_state, uploaded_file, button, script, page, fn_vars>>

User == UserUpload \/ UserRemoveFile \/ UserClickButton \/ UserInteract

(***************************************************************************)
(* A script run: main() up to the choice of the screen, then one of        *)
(* display_results and display_uploader.  A widget that a run does not     *)
(* render loses its value.                                                 *)
(***************************************************************************)
main ==
    /\ script = "idle"
    /\ pending
    /\ script' = "running"
    /\ pending' = FALSE
    /\ session_state' = IF Initialised THEN session_state ELSE initial_state
    /\ UNCHANGED <<uploaded_file, button, page, fn_vars>>

display_uploader ==
    /\ script = "running"
    /\ ~AnalysisComplete
    /\ script' = "idle"
    /\ button' = FALSE
    /\ \/ /\ uploaded_file # None
          /\ Raised(uploaded_file[1]) = None
          /\ session_state' = store_results(session_state, Analysis[uploaded_file[1].text])
          /\ pending' = TRUE
          /\ page' = "uploader+spinner"
       \/ /\ uploaded_file # None
          /\ Raised(uploaded_file[1]) # None
          /\ session_state' = store_error(session_state, Raised(uploaded_file[1])[1])
          /\ pending' = TRUE
          /\ page' = "uploader+spinner"
       \/ /\ uploaded_file = None
          /\ page' = IF ErrorMessage # None THEN "uploader+error" ELSE "uploader"
          /\ UNCHANGED <<session_state, pending>>
    /\ UNCHANGED <<uploaded_file, fn_vars>>

display_results ==
    /\ script = "running"
    /\ AnalysisComplete
    /\ script' = "idle"
    /\ page' = "results"
    /\ uploaded_file' = None
    /\ button' = FALSE
    /\ \/ /\ button
          /\ session_state' = reset_state(session_state)
          /\ pending' = TRUE
       \/ /\ ~button
          /\ UNCHANGED <<session_state, pending>>
    /\ UNCHANGED fn_vars

Run == main \/ display_uploader \/ display_results

Init ==
    /\ session_state = <<>>
    /\ uploaded_file = None
    /\ button = FALSE
    /\ pending = TRUE
    /\ script = "idle"
    /\ page = "blank"
    /\ fn_text = <<>>
    /\ fn_pc = "idle"
    /\ fn_out = None

Next == User \/ Run

Spec == Init /\ [][Next]_vars

\* the user leaves the page alone once an error message is recorded
NextHandsOff == (User /\ ErrorMessage = None) \/ Run

\* a requested script run is started, and a started run finishes
FairSpec ==
    /\ Init
    /\ [][NextHandsOff]_vars
    /\ WF_vars(main)
    /\ WF_vars(display_uploader)
    /\ WF_vars(display_results)

(***************************************************************************)
(* One call of one extractor on a text put together from a few fragments   *)
(***************************************************************************)
RECURSIVE Concat(_)
Concat(ss) == IF ss = <<>> THEN <<>> ELSE Head(ss) \o Concat(Tail(ss))
FragTexts(F, n) == {Concat(ss) : ss \in UNION {[1..k -> F] : k \in 0..n}}

MaxClassifyFrags == 3
ClassifyFrags ==
    { <<"e","x">>, <<"a","m","e">>, <<"E","X","A","M","E">>, <<"l","a","u">>, <<"d","o">>,
      <<"A","t","e","s","t","a","d","o">>, <<"D","E","C","L","A","R","A","Ç","Ã","O">>,
      <<"r","a","i","o","-","x">>, <<" ">>,
      <<"R","E","L","A","T","Ó","R","I","O"," ","M","É","D","I","C","O">> }

MaxCidFrags == 4
CidFrags ==
    { <<"C","I","D">>, <<"c","i","d">>, <<"-","1","0">>, <<"1","0">>, <<"1">>, <<":">>,
      <<" ">>, <<"\r">>, <<"-">>, <<"M","5","4",".","5">>, <<"j","4">> }

MaxRegistryFrags == 4
RegistryFrags ==
    { <<"C","R","M">>, <<"c","o","r","e","n">>, <<"/">>, <<"S","P">>, <<"r","j">>,
      <<"1","2">>, <<" ","1","2">>, <<"\r">>, <<"é">>, <<Chr(1633)>> }

MaxSignatureFrags == 4
SignatureFrags ==
    { <<"A","s","s">>, <<"a","s","s">>, <<"i","n","a","t","u","r","a">>, <<":">>, <<" ">>,
      <<"c","l">>, <<"e">>, <<"D","r">>, <<"í">>, <<Chr(383)>> }

InitCall(texts) ==
    /\ session_state = <<>>
    /\ uploaded_file = None
    /\ button = FALSE
    /\ pending = TRUE
    /\ script = "idle"
    /\ page = "blank"
    /\ fn_text \in texts
    /\ fn_pc = "call"
    /\ fn_out = None

CallClassify ==
    /\ fn_pc = "call"
    /\ fn_out' = classify_document(fn_text)
    /\ fn_pc' = "return"
    /\ UNCHANGED <<fn_text, app_vars>>
SpecClassify ==
    InitCall(FragTexts(ClassifyFrags, MaxClassifyFrags)) /\ [][CallClassify]_vars

CallCid ==
    /\ fn_pc = "call"
    /\ fn_out' = extract_cid(fn_text)
    /\ fn_pc' = "return"
    /\ UNCHANGED <<fn_text, app_vars>>
SpecCid == InitCall(FragTexts(CidFrags, MaxCidFrags)) /\ [][CallCid]_vars

CallRegistry ==
    /\ fn_pc = "call"
    /\ fn_out' = extract_registry(fn_text)
    /\ fn_pc' = "return"
    /\ UNCHANGED <<fn_text, app_vars>>
SpecRegistry ==
    InitCall(FragTexts(RegistryFrags, MaxRegistryFrags)) /\ [][CallRegistry]_vars

CallSignature ==
    /\ fn_pc = "call"
    /\ fn_out' = check_signature(fn_text)
    /\ fn_pc' = "return"
    /\ UNCHANGED <<fn_text, app_vars>>
SpecSignature ==
    InitCall(FragTexts(SignatureFrags, MaxSignatureFrags)) /\ [][CallSignature]_vars

(***************************************************************************)
(* Properties of the session state machine                                 *)
(***************************************************************************)
ResultFields == {"doc_type", "cid", "registry_info", "afastamento", "signature", "raw_text"}

C1_Consistent ==
    /\ AnalysisComplete <=> Results # None
    /\ Results # None => DOMAIN Results[1] = ResultFields
C1_Entered ==
    (~AnalysisComplete /\ AnalysisComplete') =>
        /\ script = "running"
        /\ uploaded_file # None
        /\ Raised(uploaded_file[1]) = None
        /\ Results' # None
        /\ Results'[1].raw_text = uploaded_file[1].text
\* C1: analysis_complete is True exactly when results holds a result, a stored
\* result has all six fields, and Showing-Result is entered only by a run of
\* display_uploader whose OCR and extractors completed on the uploaded file.
C1_Theorem == [](C1_Consistent) /\ [][C1_Entered]_vars
C1_Witness ==
    /\ AnalysisComplete
    /\ page = "results"
    /\ Results # None
    /\ Results[1].cid # None
    /\ ~Results[1].signature

FailingRequest ==
    /\ script = "running"
    /\ ~AnalysisComplete
    /\ uploaded_file # None
    /\ Raised(uploaded_file[1]) # None
\* C2: a run of display_uploader in which opening the file or the OCR call
\* raises records an error message, leaves analysis_complete False and leaves
\* results as it was.
C2_Theorem ==
    [][FailingRequest =>
          /\ ErrorMessage' # None
          /\ ~AnalysisComplete'
          /\ Results' = Results
          /\ script' = "idle"]_vars
C2_Witness ==
    /\ script = "idle"
    /\ uploaded_file # None
    /\ Raised(uploaded_file[1]) # None
    /\ ErrorMessage # None
    /\ ~AnalysisComplete
    /\ Results = None

\* C3: once an error message is recorded for a submitted file, a run that
\* renders the error banner with the upload control follows, the user doing
\* nothing further.
C3_Claim == (ErrorMessage # None /\ uploaded_file # None) ~> (page = "uploader+error")

\* C4: Showing-Result is left only by the run that handles the button; that run
\* leaves analysis_complete False, results None and error_message None, and the
\* run after it shows the uploader with no result and no error.
C4_Theorem ==
    /\ [][(AnalysisComplete /\ ~AnalysisComplete') =>
             /\ script = "running"
             /\ button
             /\ Initialised'
             /\ Results' = None
             /\ ErrorMessage' = None
             /\ pending']_vars
    /\ [][(script = "running" /\ page = "results" /\ ~AnalysisComplete) =>
             /\ page' = "uploader"
             /\ Results' = None
             /\ ErrorMessage' = None]_vars
C4_Witness ==
    /\ script = "idle"
    /\ page = "results"
    /\ Initialised
    /\ ~AnalysisComplete
    /\ Results = None
    /\ ErrorMessage = None
    /\ pending

FiveCriteria(r) ==
    /\ r.doc_type = "Laudo" \/ r.doc_type = "Laudo com Exame"
    /\ r.cid # None
    /\ r.registry_info[1] # None
    /\ r.registry_info[2] = <<"Ativo">>
    /\ r.afastamento = TRUE
    /\ r.signature = TRUE
\* C5: for the stored result the verdict is approved exactly when the five
\* criteria hold, exactly when the five checklist items are marked passed; with
\* the diagnosis code removed from an approved result, or the CID segment
\* removed from its text, only the diagnosis-code item fails.
C5_Theorem ==
    Results # None =>
        LET r == Results[1] IN
        /\ is_approved(r) <=> FiveCriteria(r)
        /\ is_approved(r) <=> (checklist(r) = <<TRUE, TRUE, TRUE, TRUE, TRUE>>)
        /\ is_approved(r) =>
              /\ ~is_approved([r EXCEPT !.cid = None])
              /\ checklist([r EXCEPT !.cid = None]) = <<TRUE, FALSE, TRUE, TRUE, TRUE>>
              /\ \A S \in SUBSET (1..NumSegments) :
                    (2 \in S /\ r.raw_text = DocText(S)) =>
                        /\ ~is_approved(Analyze(DocText(S \ {2})))
                        /\ checklist(Analyze(DocText(S \ {2})))
                              = <<TRUE, FALSE, TRUE, TRUE, TRUE>>
C5_Witness ==
    /\ page = "results"
    /\ Results # None
    /\ is_approved(Results[1])
    /\ Results[1].doc_type = "Laudo com Exame"

(***************************************************************************)
(* Properties of the extractors                                            *)
(***************************************************************************)
\* word is a substring of t
Substring(t, word) ==
    \E i \in 1..(Len(t) + 1) : \E j \in (i - 1)..Len(t) : SubSeq(t, i, j) = word
HasExam(t) == \E word \in exam_keywords : Substring(lower(t), word)
HasReport(t) == \E word \in report_keywords : Substring(lower(t), word)
\* C6: classify_document returns 'Laudo com Exame' with an exam and a report
\* keyword, 'Exame' with an exam keyword only, 'Laudo' with a report keyword
\* only, and 'Desconhecido' with neither.
C6_Theorem ==
    fn_pc = "return" =>
        /\ fn_out \in {"Laudo com Exame", "Exame", "Laudo", "Desconhecido"}
        /\ (HasExam(fn_text) /\ HasReport(fn_text)) => fn_out = "Laudo com Exame"
        /\ (HasExam(fn_text) /\ ~HasReport(fn_text)) => fn_out = "Exame"
        /\ (~HasExam(fn_text) /\ HasReport(fn_text)) => fn_out = "Laudo"
        /\ (~HasExam(fn_text) /\ ~HasReport(fn_text)) => fn_out = "Desconhecido"
C6_Witness ==
    /\ fn_pc = "return"
    /\ fn_out = "Laudo com Exame"
    /\ HasExam(fn_text)
    /\ HasReport(fn_text)

\* the positions where a code starts after the marker at i, as C7 describes it:
\* 'CID', then '-10' or '10' or neither, then one separator or none, then a
\* letter and a digit
DescribedCodeStarts(t, i) ==
    IF ~LitAtI(t, i, <<"c","i","d">>) THEN {}
    ELSE LET afterTen == {i + 3}
                 \cup (IF LitAt(t, i + 3, <<"-","1","0">>) THEN {i + 6} ELSE {})
                 \cup (IF LitAt(t, i + 3, <<"1","0">>) THEN {i + 5} ELSE {})
             afterSep == afterTen
                 \cup {p + 1 : p \in {q \in afterTen : At(t, q) \in {":", "-", " "}}}
         IN {p \in afterSep : IsAZ(At(t, p)) /\ IsDigit(At(t, p + 1))}
Min(S) == CHOOSE m \in S : \A n \in S : m <= n
Markers(t) == {i \in 1..Len(t) : LitAtI(t, i, <<"c","i","d">>)}
\* C7: when the first 'CID' marker of the text is followed by the code as
\* described, with or without the '10' part, extract_cid returns that code in
\* upper case.
C7_Claim ==
    fn_pc = "return" =>
        \A i \in Markers(fn_text) :
            i = Min(Markers(fn_text)) =>
                \A p \in DescribedCodeStarts(fn_text, i) :
                    fn_out = Some(upper(SubSeq(fn_text, p, CidGroupEnd(fn_text, p) - 1)))

\* the n characters from position p on are all separators / all letters
AllSeparators(t, p, n) == \A k \in p..(p + n - 1) : IsSlashSpace(At(t, k))
AllLetters(t, p, n) == \A k \in p..(p + n - 1) : IsAZ(At(t, k))
\* the registry occurrences at i with type ty: the type as a word of its own,
\* j1 separators, a state of st = 2 letters or none, j2 separators, a digit
OccurrencesAt(t, i, ty) ==
    IF WordBoundary(t, i) /\ LitAtI(t, i, ty) /\ WordBoundary(t, i + Len(ty))
    THEN UNION { UNION {
             {[i |-> i, ty |-> ty, j1 |-> j1, st |-> st, j2 |-> j2] :
                 j2 \in {j \in 0..Len(t) :
                           /\ AllSeparators(t, i + Len(ty) + j1 + st, j)
                           /\ IsDigit(At(t, i + Len(ty) + j1 + st + j))}} :
             st \in {n \in {0, 2} : AllLetters(t, i + Len(ty) + j1, n)}} :
             j1 \in {j \in 0..Len(t) : AllSeparators(t, i + Len(ty), j)}}
    ELSE {}
Occurrences(t) ==
    UNION {OccurrencesAt(t, x[1], x[2]) : x \in (1..Len(t)) \X Range(registry_types)}
\* the digits from position p on
RECURSIVE Digits(_, _)
Digits(t, p) == IF IsDigit(At(t, p)) THEN <<t[p]>> \o Digits(t, p + 1) ELSE <<>>
OccurrenceLabel(t, o) ==
    LET b == o.i + Len(o.ty) + o.j1 IN
    upper(SubSeq(t, o.i, o.i + Len(o.ty) - 1)) \o <<"/">>
        \o upper(SubSeq(t, b, b + o.st - 1)) \o <<" ">>
        \o Digits(t, b + o.st + o.j2)
\* C8: for the first registry occurrence extract_registry returns the label
\* '<TYPE>/<STATE> <NUMBER>' in upper case, the state segment empty when there is
\* no state, with status 'Ativo'; without an occurrence it returns (None, None);
\* the status is 'Ativo' exactly when a label is returned.
C8_Theorem ==
    fn_pc = "return" =>
        LET occ == Occurrences(fn_text) IN
        /\ \A o \in occ :
              (\A o2 \in occ : o.i <= o2.i) =>
                  fn_out = <<Some(OccurrenceLabel(fn_text, o)), Some("Ativo")>>
        /\ occ = {} => fn_out = <<None, None>>
        /\ fn_out[2] = Some("Ativo") <=> fn_out[1] # None
C8_Witness ==
    /\ fn_pc = "return"
    /\ fn_text = <<"C","R","M","/","S","P"," ","1","2">>
    /\ fn_out = << <<  <<"C","R","M","/","S","P"," ","1","2">>  >>, <<"Ativo">> >>

\* a registry type as a word of its own at some position
StandaloneType(t) ==
    \E i \in 1..Len(t) : \E ty \in Range(registry_types) :
        WordBoundary(t, i) /\ LitAtI(t, i, ty) /\ WordBoundary(t, i + Len(ty))
\* C10 as stated: a standalone registry type gives status 'Ativo', state and
\* number both optional.
C10_Claim == (fn_pc = "return" /\ StandaloneType(fn_text)) => is_active_registry(fn_out)
\* C10, amended: the registry criterion passes exactly when some standalone
\* registry type is followed by a number, with or without a state of two letters
\* in between; a type that no number follows gives (None, None).
C10_Theorem ==
    fn_pc = "return" =>
        /\ is_active_registry(fn_out) <=> Occurrences(fn_text) # {}
        /\ Occurrences(fn_text) = {} => fn_out = <<None, None>>
C10_Witness ==
    /\ fn_pc = "return"
    /\ is_active_registry(fn_out)
    /\ \E o \in Occurrences(fn_text) : o.st = 0
    /\ \A o \in Occurrences(fn_text) : o.st = 0

\* a word that begins with 'ass' and is followed at once by a colon
SignatureWord(t) ==
    \E i \in 1..Len(t) : \E k \in 0..Len(t) :
        /\ ~IsWordChar(At(t, i - 1))
        /\ LitAtI(t, i, <<"a","s","s">>)
        /\ \A j \in (i + 3)..(i + 2 + k) : IsWordChar(At(t, j))
        /\ At(t, i + 3 + k) = ":"
\* C9: check_signature is True exactly when the text has a word that begins
\* with 'ass' and is followed at once by a colon.
C9_Claim == fn_pc = "return" => (fn_out <=> SignatureWord(fn_text))
=============================================================================
